---- MODULE Spec2Model ----
(***************************************************************************)
(* The AI review pipeline of repo-inquisitor, in its two variants:        *)
(*   "src"        src/src/reviewer/ai_reviewer.py                          *)
(*   "python_src" src/python_src/reviewer/ai_reviewer.py                   *)
(* One run of main() is one behaviour.  The steps of a run are cut at the *)
(* calls main makes to the outside (prompt file, hosting API, model       *)
(* provider, time.sleep, comment sink): an action is one such call plus   *)
(* all the code main runs up to the next one.                             *)
(***************************************************************************)
EXTENDS Integers, Sequences, FiniteSets, TLC

VARIABLES
    variant,            \* which of the two scripts runs
    GEMINI_API_KEY,     \* TRUE iff the environment gives a non-empty key
    GITHUB_TOKEN,       \* TRUE iff set and non-empty
    REPO_NAME,          \* TRUE iff set and non-empty
    PR_NUMBER_STR,      \* "" (unset or empty), "7" (a number), "abc" (not a number)
    MODEL_NAME,         \* os.getenv("MODEL_NAME", DEFAULT_MODEL_NAME)
    MODEL_PRIORITIES,   \* the module-level list (a mutable Python list)
    pc,                 \* where main is: the next outside call it makes
    files,              \* the listing pr.get_files() returned
    diff_text,          \* the assembled diff: the sequence of blocks joined by "\n\n"
    models_to_try,
    idx,                \* position of the for loop in models_to_try (1-based)
    review_comment,
    successful_model,
    last_error,
    retry_delay,
    exit_code,          \* Running, 0 or 1
    reported,           \* the error the run logs when it ends in failure
    ev,                 \* history: the last outside event of the run
    invoked,            \* history: indices of the candidates analyze_code was called for
    failed,             \* history: indices whose latest analyze_code call raised
    last_raised,        \* history: the error of the latest analyze_code call that raised
    returned,           \* history: some analyze_code call returned without raising
    n_calls,            \* history: number of analyze_code calls
    n_sleeps,           \* history: number of time.sleep calls
    n_posts,            \* history: number of pr.create_issue_comment calls
    host_contacted,     \* history: the hosting API was called
    fetched             \* history: the fetcher returned a change set

vars == << variant, GEMINI_API_KEY, GITHUB_TOKEN, REPO_NAME, PR_NUMBER_STR, MODEL_NAME,
           MODEL_PRIORITIES, pc, files, diff_text, models_to_try, idx, review_comment,
           successful_model, last_error, retry_delay, exit_code, reported, ev, invoked,
           failed, last_raised, returned, n_calls, n_sleeps, n_posts, host_contacted,
           fetched >>

config_vars == << variant, GEMINI_API_KEY, GITHUB_TOKEN, REPO_NAME, PR_NUMBER_STR, MODEL_NAME >>

-----------------------------------------------------------------------------
(* Bounds of the model *)

\* longest file listing the hosting API returns in a run
MaxFiles == 1

\* largest number of seconds a provider message names
MaxDelay == 2

\* longest file listing given to a fetcher run on its own
MaxListing == 2

\* longest message (in phrases) given to a parser run on its own
MaxMsgLen == 2

-----------------------------------------------------------------------------
(* Python values *)

\* None, for the text-valued variables (review_comment, response.text)
None == "<None>"

\* None, for Optional[float] (parse_retry_delay) and for f.patch
NoDelay == -1
NoPatch == -1

\* exit_code while main has not returned or exited
Running == -1

Range(s) == { s[i] : i \in 1..Len(s) }

\* x in s, for sequences standing for strings: s has x as a contiguous part
Contains(s, x) ==
    \E i \in 1..(Len(s) - Len(x) + 1) : SubSeq(s, i, i + Len(x) - 1) = x

\* s.endswith(x)
EndsWith(s, x) ==
    /\ Len(s) >= Len(x)
    /\ SubSeq(s, Len(s) - Len(x) + 1, Len(s)) = x

\* list.insert(i, x) with a 0-based i inside the list
Insert(s, i, x) == SubSeq(s, 1, i) \o << x >> \o SubSeq(s, i + 1, Len(s))

\* Python truthiness of an Optional[str]
Truthy(t) == t # None /\ t # ""

-----------------------------------------------------------------------------
(* Constants of the two scripts *)

REVIEWABLE_EXTENSIONS ==
    << <<".", "t", "s">>, <<".", "t", "s", "x">>, <<".", "j", "s">>,
       <<".", "c", "s", "s">>, <<".", "s", "q", "l">>, <<".", "p", "y">>,
       <<".", "m", "d">>, <<".", "j", "s", "o", "n">>, <<".", "y", "m", "l">>,
       <<".", "t", "o", "m", "l">> >>

DefaultPriorities ==
    << "gemini-3-flash-preview", "gemini-2.5-flash", "gemini-2.5-flash-lite",
       "gemini-2.5-pro", "gemini-2.0-flash", "gemini-2.0-flash-lite", "gemini-2.0-pro" >>

DEFAULT_MODEL_NAME(v) == IF v = "src" THEN "gemini-2.5-pro" ELSE "gemini-2.0-flash"

ExcludedSrc ==
    << <<"p", "a", "c", "k", "a", "g", "e", "-", "l", "o", "c", "k", ".", "j", "s", "o", "n">>,
       <<"y", "a", "r", "n", ".", "l", "o", "c", "k">>,
       <<"p", "n", "p", "m", "-", "l", "o", "c", "k", ".", "y", "a", "m", "l">>,
       <<"d", "i", "s", "t", "/">>,
       <<"o", "u", "t", "/">>,
       <<"b", "u", "i", "l", "d", "/">> >>

ExcludedPy ==
    ExcludedSrc \o
    << <<"r", "e", "p", "o", "m", "i", "x", "-", "o", "u", "t", "p", "u", "t", ".", "x", "m", "l">> >>

\* len(f.patch) < 20000
PatchLimit == 20000

\* time.sleep(10)
SimpleWait == 10

\* return 5.0
DefaultDelay == 5

-----------------------------------------------------------------------------
(* Error messages.                                                          *)
(* A message is a sequence of phrases.  A phrase is a record                *)
(*   [kind, n, uc]: kind is the phrase's words in lower case, n the number  *)
(*   it carries (0 when it carries none) and uc whether the message writes  *)
(*   the words in upper case.  The phrases with a number stand for          *)
(*     "retry in"     -> "retry in <n> seconds"                             *)
(*     "retry after"  -> "retry after <n> seconds"                          *)
(*     "wait"         -> "wait <n> seconds"                                 *)
(*     "before retry" -> "<n> seconds before retry"                         *)
(* and every other kind is the text itself ("429", "quota", ...).           *)

NumberKinds == { "retry in", "retry after", "wait", "before retry" }

Txt(k)       == [kind |-> k, n |-> 0, uc |-> FALSE]
TxtUpper(k)  == [kind |-> k, n |-> 0, uc |-> TRUE]
Phrase(k, d) == [kind |-> k, n |-> d, uc |-> FALSE]

\* str.lower()
Lower(msg) == [i \in 1..Len(msg) |-> [msg[i] EXCEPT !.uc = FALSE]]

\* The decimal digits of d contain "429"
Digits429(d) ==
    \E k \in 0..6 : (d \div (10 ^ k)) % 1000 = 429

\* word in msg, for a word of letters: case-sensitive, as Python's `in`
HasWord(msg, w) ==
    \E i \in 1..Len(msg) : msg[i].kind = w /\ ~msg[i].uc

\* "429" in msg: digits have no case, and a number phrase may carry them
Has429(msg) ==
    \E i \in 1..Len(msg) :
        \/ msg[i].kind = "429"
        \/ msg[i].kind \in NumberKinds /\ Digits429(msg[i].n)

\* re.search(pattern, text) for the pattern of a number phrase: the position of
\* the leftmost match, 0 when there is none
SearchNumber(k, text) ==
    LET hits == { i \in 1..Len(text) : text[i].kind = k /\ ~text[i].uc }
    IN  IF hits = {} THEN 0 ELSE CHOOSE i \in hits : \A j \in hits : i <= j

\* The first pattern of `patterns` (in order) that matches text: its index, 0 if none
RECURSIVE FirstMatch(_, _, _)
FirstMatch(patterns, text, i) ==
    IF i > Len(patterns) THEN 0
    ELSE IF patterns[i] \in NumberKinds
         THEN IF SearchNumber(patterns[i], text) # 0 THEN i
              ELSE FirstMatch(patterns, text, i + 1)
         ELSE IF (IF patterns[i] = "429" THEN Has429(text) ELSE HasWord(text, patterns[i]))
              THEN i
              ELSE FirstMatch(patterns, text, i + 1)

PatternsSrc == << "retry in", "retry after", "wait", "before retry" >>

\* PatternsPy with the bare markers tried before the number patterns
PatternsPyMarkersFirst == << "429", "resource exhausted", "retry in", "retry after", "wait" >>

PatternsPy == << "retry in", "retry after", "wait", "429", "resource exhausted" >>

\* parse_retry_delay of src: every pattern has a number group, float() of
\* \d+(\.\d+)? never raises
parse_retry_delay_src(error_message) ==
    LET text == Lower(error_message)
        p    == FirstMatch(PatternsSrc, text, 1)
    IN  IF p = 0 THEN NoDelay
        ELSE text[SearchNumber(PatternsSrc[p], text)].n

\* parse_retry_delay of python_src: a pattern without a group gives 5.0
parse_retry_delay_py(error_message) ==
    LET text == Lower(error_message)
        p    == FirstMatch(PatternsPy, text, 1)
    IN  IF p = 0 THEN NoDelay
        ELSE IF PatternsPy[p] \in NumberKinds
             THEN text[SearchNumber(PatternsPy[p], text)].n
             ELSE DefaultDelay

-----------------------------------------------------------------------------
(* Exceptions: [exc, code, msg]; code is getattr(e, 'code', None), 0 for None *)

NoError == [exc |-> "None", code |-> 0, msg |-> << >>]

GoogleAPIError(c, m) == [exc |-> "GoogleAPIError", code |-> c, msg |-> m]
OtherException(m)    == [exc |-> "Exception", code |-> 0, msg |-> m]
ReviewerError(m)     == [exc |-> "ReviewerError", code |-> 0, msg |-> m]

KeyMissing == ReviewerError(<< Txt("GEMINI_API_KEY is missing.") >>)

\* ReviewerError(f"Unexpected error during analysis: {e}")
Unexpected(e) == ReviewerError(<< Txt("Unexpected error during analysis:") >> \o e.msg)

\* is_rate_limit of src main
is_rate_limit(e) ==
    \/ e.code = 429
    \/ Has429(e.msg)
    \/ HasWord(Lower(e.msg), "quota")
    \/ HasWord(Lower(e.msg), "rate limit")
    \/ HasWord(Lower(e.msg), "resource exhausted")

\* the test of python_src main
IsRateLimitPy(e) ==
    \/ Has429(e.msg)
    \/ HasWord(Lower(e.msg), "resource exhausted")

\* UsableDelay with >= in place of >
UsableDelayLoose(d) == d # NoDelay /\ d # 0 /\ d >= 1

\* if retry_delay and retry_delay > 1.0
UsableDelay(d) == d # NoDelay /\ d # 0 /\ d > 1

-----------------------------------------------------------------------------
(* What the model provider answers to one generate_content call *)

TextResponse(t) == [kind |-> "text", text |-> t, err |-> NoError]
ErrorResponse(e) == [kind |-> "error", text |-> None, err |-> e]

ProviderErrors ==
    { GoogleAPIError(500, << Txt("internal error") >>),
      GoogleAPIError(429, << Txt("429"), TxtUpper("resource exhausted") >>),
      GoogleAPIError(500, << Phrase("wait", MaxDelay) >>),
      OtherException(<< Txt("invalid response") >>),
      OtherException(<< Txt("429"), Phrase("retry after", MaxDelay) >>) }
    \cup { GoogleAPIError(429, << Txt("quota"), Phrase("retry in", d) >>) : d \in 0..MaxDelay }

ProviderResponses ==
    { TextResponse("LGTM"), TextResponse(""), TextResponse(None) }
    \cup { ErrorResponse(e) : e \in ProviderErrors }

Return(t) == [kind |-> "return", text |-> t, err |-> NoError]
Raise(e)  == [kind |-> "raise", text |-> None, err |-> e]

\* analyze_code of src: GoogleAPIError passes, anything else is wrapped
analyze_code_src(key, resp) ==
    IF ~key THEN Raise(KeyMissing)
    ELSE IF resp.kind = "text" THEN Return(resp.text)
    ELSE IF resp.err.exc = "GoogleAPIError" THEN Raise(resp.err)
    ELSE Raise(Unexpected(resp.err))

\* analyze_code of python_src: every exception of the call is wrapped
analyze_code_py(key, resp) ==
    IF ~key THEN Raise(KeyMissing)
    ELSE IF resp.kind = "text" THEN Return(resp.text)
    ELSE Raise(Unexpected(resp.err))

-----------------------------------------------------------------------------
(* The change set: files [filename, status, patch], patch the length of the  *)
(* patch text or NoPatch; a block of the diff is [filename, body].           *)

F_a_ts    == <<"a", ".", "t", "s">>
F_lock    == <<"p", "a", "c", "k", "a", "g", "e", "-", "l", "o", "c", "k", ".", "j", "s", "o", "n">>
F_png     == <<"a", ".", "p", "n", "g">>
F_repomix == <<"r", "e", "p", "o", "m", "i", "x", "-", "o", "u", "t", "p", "u", "t", ".", "x", "m", "l", ".", "m", "d">>

File(name, st, p) == [filename |-> name, status |-> st, patch |-> p]

FileUniverse ==
    { File(F_a_ts, "modified", 10),
      File(F_a_ts, "removed", 10),
      File(F_a_ts, "modified", NoPatch),
      File(F_lock, "modified", 10),
      File(F_png, "added", NoPatch),
      File(F_repomix, "added", 10) }

RECURSIVE SeqsUpTo(_, _)
SeqsUpTo(S, n) ==
    IF n = 0 THEN { << >> }
    ELSE LET shorter == SeqsUpTo(S, n - 1)
         IN  shorter \cup { Append(q, x) : q \in { r \in shorter : Len(r) = n - 1 }, x \in S }

Listings == SeqsUpTo(FileUniverse, MaxFiles)

F_b_py == <<"b", ".", "p", "y">>
F_dist == <<"d", "i", "s", "t", "/", "a", ".", "j", "s">>

\* the files of the listings a fetcher is run on by itself: every status, every
\* kind of path, and patches absent, empty, short and around PatchLimit
FetchFiles ==
    { File(F_a_ts, "modified", 10),
      File(F_a_ts, "removed", 10),
      File(F_a_ts, "modified", NoPatch),
      File(F_b_py, "added", 0),
      File(F_b_py, "added", PatchLimit - 1),
      File(F_b_py, "modified", PatchLimit),
      File(F_b_py, "modified", PatchLimit + 1),
      File(F_lock, "modified", 10),
      File(F_dist, "modified", 10),
      File(F_png, "added", NoPatch),
      File(F_repomix, "added", 10) }

FetchListings == SeqsUpTo(FetchFiles, MaxListing)

\* the text an f-string gives for a patch: the patch, cut or not, or "None"
PatchBody(len, cut) == [text |-> "patch", len |-> len, truncated |-> cut]
NoneBody == [text |-> "None", len |-> 4, truncated |-> FALSE]

Block(name, body) == [filename |-> name, body |-> body]

\* any(x in f.filename for x in [...])
Excluded(name, list) == \E i \in 1..Len(list) : Contains(name, list[i])

\* f.filename.endswith(REVIEWABLE_EXTENSIONS)
Reviewable(name) ==
    \E i \in 1..Len(REVIEWABLE_EXTENSIONS) : EndsWith(name, REVIEWABLE_EXTENSIONS[i])

\* patch = f.patch if len(f.patch) < 20000 else f.patch[:20000] + "\n... [TRUNCATED]"
Truncate(len) ==
    IF len < PatchLimit THEN PatchBody(len, FALSE) ELSE PatchBody(PatchLimit, TRUE)

\* the for loop of get_pr_diff (src) over files[i..]
RECURSIVE diff_content_src(_, _)
diff_content_src(fs, i) ==
    IF i > Len(fs) THEN << >>
    ELSE LET f == fs[i]
             rest == diff_content_src(fs, i + 1)
         IN  IF f.status = "removed" THEN rest
             ELSE IF Excluded(f.filename, ExcludedSrc) THEN rest
             ELSE IF Reviewable(f.filename)
                  THEN << Block(f.filename,
                                IF f.patch = NoPatch THEN NoneBody
                                ELSE PatchBody(f.patch, FALSE)) >> \o rest
                  ELSE rest

\* diff_content_py without the `if f.status == "removed": continue`
RECURSIVE diff_content_py_removed(_, _)
diff_content_py_removed(fs, i) ==
    IF i > Len(fs) THEN << >>
    ELSE LET f == fs[i]
             rest == diff_content_py_removed(fs, i + 1)
         IN  IF Excluded(f.filename, ExcludedPy) THEN rest
             ELSE IF Reviewable(f.filename)
                  THEN IF f.patch = NoPatch \/ f.patch = 0 THEN rest
                       ELSE << Block(f.filename, Truncate(f.patch)) >> \o rest
                  ELSE rest

\* the for loop of get_pr_data (python_src) over files[i..]
RECURSIVE diff_content_py(_, _)
diff_content_py(fs, i) ==
    IF i > Len(fs) THEN << >>
    ELSE LET f == fs[i]
             rest == diff_content_py(fs, i + 1)
         IN  IF f.status = "removed" THEN rest
             ELSE IF Excluded(f.filename, ExcludedPy) THEN rest
             ELSE IF Reviewable(f.filename)
                  THEN IF f.patch = NoPatch \/ f.patch = 0 THEN rest
                       ELSE << Block(f.filename, Truncate(f.patch)) >> \o rest
                  ELSE rest

-----------------------------------------------------------------------------
(* The candidate list of main *)

\* BuildModels without the .copy(): the insert reaches the module-level list
BuildModelsAlias(priorities, name) ==
    LET list == IF name # "" /\ name \notin Range(priorities)
                THEN Insert(priorities, 0, name) ELSE priorities
    IN  [ models_to_try |-> list, MODEL_PRIORITIES |-> list ]

\* models_to_try = MODEL_PRIORITIES.copy(); insert(0, MODEL_NAME) if set and absent.
\* Gives the pair (models_to_try, MODEL_PRIORITIES) after the statements.
BuildModels(priorities, name) ==
    LET copy == priorities
    IN  [ models_to_try |->
              IF name # "" /\ name \notin Range(priorities)
              THEN Insert(copy, 0, name) ELSE copy,
          MODEL_PRIORITIES |-> priorities ]

-----------------------------------------------------------------------------
(* Events of a run, kept in ev *)

NoEvent == [type |-> "none", idx |-> 0, attempt |-> 0, err |-> NoError, secs |-> 0]
Returned(i, a) == [type |-> "returned", idx |-> i, attempt |-> a, err |-> NoError, secs |-> 0]
Raised(i, a, e) == [type |-> "raised", idx |-> i, attempt |-> a, err |-> e, secs |-> 0]
Slept(i, d) == [type |-> "sleep", idx |-> i, attempt |-> 0, err |-> NoError, secs |-> d]
Posted(ok) == [type |-> IF ok THEN "posted" ELSE "post_failed", idx |-> 0, attempt |-> 0,
               err |-> NoError, secs |-> 0]

-----------------------------------------------------------------------------
(* The run *)

Variants == { "src", "python_src" }

\* MODEL_NAME as the environment gives it: unset (the default applies), empty,
\* a name of the priority list, a name outside it
ModelNames(v) == { DEFAULT_MODEL_NAME(v), "", "gemini-2.5-flash", "custom-model" }

Init ==
    /\ variant \in Variants
    /\ GEMINI_API_KEY \in BOOLEAN
    /\ GITHUB_TOKEN \in BOOLEAN
    /\ REPO_NAME \in BOOLEAN
    /\ PR_NUMBER_STR \in { "", "7", "abc" }
    /\ MODEL_NAME \in ModelNames(variant)
    /\ MODEL_PRIORITIES = DefaultPriorities
    /\ pc = "load_prompt"
    /\ files = << >>
    /\ diff_text = << >>
    /\ models_to_try = << >>
    /\ idx = 0
    /\ review_comment = None
    /\ successful_model = None
    /\ last_error = NoError
    /\ retry_delay = NoDelay
    /\ exit_code = Running
    /\ reported = NoError
    /\ ev = NoEvent
    /\ invoked = {}
    /\ failed = {}
    /\ last_raised = NoError
    /\ returned = FALSE
    /\ n_calls = 0
    /\ n_sleeps = 0
    /\ n_posts = 0
    /\ host_contacted = FALSE
    /\ fetched = FALSE

loop_vars == << models_to_try, idx, review_comment, successful_model, last_error, retry_delay >>
call_hist == << invoked, failed, last_raised, returned, n_calls >>

\* main returns normally
ReturnFromMain ==
    /\ pc' = "done"
    /\ exit_code' = 0
    /\ reported' = NoError

\* except Exception as e: logger.critical(...); sys.exit(1)  (and sys.exit(1) itself)
ExitFailure(e) ==
    /\ pc' = "done"
    /\ exit_code' = 1
    /\ reported' = e

KeepRunning(next) ==
    /\ pc' = next
    /\ exit_code' = Running
    /\ reported' = NoError

\* src: error_msg = f"All models failed. Last error: {last_error}" if last_error
\*      else "Analysis failed."; raise ReviewerError(error_msg)
AllModelsFailed(le) ==
    IF le = NoError
    THEN ReviewerError(<< Txt("Analysis failed.") >>)
    ELSE ReviewerError(<< Txt("All models failed. Last error:") >> \o le.msg)

\* AfterLoop without the test of review_comment and successful_model
AfterLoopAlways(rc, sm, le) == KeepRunning("publish")

\* The code after the for loop, up to the sink call:
\* if review_comment and successful_model: ... else: the run fails; src raises
\* AllModelsFailed(last_error), python_src logs last_error and calls sys.exit(1)
AfterLoop(rc, sm, le) ==
    IF Truthy(rc) /\ sm # None
    THEN KeepRunning("publish")
    ELSE ExitFailure(IF variant = "src" THEN AllModelsFailed(le) ELSE le)

\* Continue stepping over a candidate
ContinueSkip(rc, sm, le) ==
    IF idx + 1 < Len(models_to_try)
    THEN /\ idx' = idx + 2
         /\ KeepRunning("attempt")
    ELSE /\ idx' = idx
         /\ AfterLoop(rc, sm, le)

\* continue: the next candidate, or the end of the loop
Continue(rc, sm, le) ==
    IF idx < Len(models_to_try)
    THEN /\ idx' = idx + 1
         /\ KeepRunning("attempt")
    ELSE /\ idx' = idx
         /\ AfterLoop(rc, sm, le)

\* What open() and read() of one system_prompt.md path give: the text, a
\* FileNotFoundError, or another error (the path is a directory, the bytes are
\* not UTF-8)
IsADirectoryError == [exc |-> "IsADirectoryError", code |-> 0,
                      msg |-> << Txt("[Errno 21] Is a directory") >>]
UnicodeDecodeError == [exc |-> "UnicodeDecodeError", code |-> 0,
                       msg |-> << Txt("'utf-8' codec can't decode byte") >>]
ReadErrors == { IsADirectoryError, UnicodeDecodeError }

PromptText == [exc |-> "<text>", code |-> 0, msg |-> << >>]
FileNotFoundError == [exc |-> "FileNotFoundError", code |-> 0,
                      msg |-> << Txt("[Errno 2] No such file or directory") >>]
PromptReads == { PromptText, FileNotFoundError } \cup ReadErrors

\* ReviewerError(f"system_prompt.md not found in {script_dir} or current dir!")
PromptNotFound == ReviewerError(<< Txt("system_prompt.md not found") >>)

\* ReviewerError(f"Error reading system_prompt.md: {e}")
ErrorReading(e) == ReviewerError(<< Txt("Error reading system_prompt.md:") >> \o e.msg)

\* load_prompt of src: script is the read of the script directory's file, cwd
\* that of the current directory's. An error of the fallback read is raised
\* inside the except FileNotFoundError block, out of reach of `except Exception`.
load_prompt_src(script, cwd) ==
    IF script = PromptText THEN Return("prompt")
    ELSE IF script = FileNotFoundError
         THEN IF cwd = PromptText THEN Return("prompt")
              ELSE IF cwd = FileNotFoundError THEN Raise(PromptNotFound)
              ELSE Raise(cwd)
    ELSE Raise(ErrorReading(script))

\* load_prompt of python_src: no `except Exception`, and the fallback is read
\* only if os.path.exists('system_prompt.md')
load_prompt_py(script, cwd) ==
    IF script = PromptText THEN Return("prompt")
    ELSE IF script = FileNotFoundError
         THEN IF cwd = PromptText THEN Return("prompt")
              ELSE IF cwd = FileNotFoundError THEN Raise(PromptNotFound)
              ELSE Raise(cwd)
    ELSE Raise(script)

\* system_prompt = load_prompt(): the prompt is read, or the run ends
LoadPrompt ==
    /\ pc = "load_prompt"
    /\ \E script, cwd \in PromptReads :
          LET out == IF variant = "src" THEN load_prompt_src(script, cwd)
                     ELSE load_prompt_py(script, cwd)
          IN  IF out.kind = "return"
              THEN KeepRunning("fetch")
              ELSE ExitFailure(out.err)
    /\ UNCHANGED << config_vars, MODEL_PRIORITIES, files, diff_text, loop_vars, ev,
                    call_hist, n_sleeps, n_posts, host_contacted, fetched >>

\* MissingCredentials without the test of PR_NUMBER_STR
MissingCredentialsTwo == ~GITHUB_TOKEN \/ ~REPO_NAME

\* if not GITHUB_TOKEN or not REPO_NAME or not PR_NUMBER_STR
MissingCredentials == ~GITHUB_TOKEN \/ ~REPO_NAME \/ PR_NUMBER_STR = ""

ValueError(m) == [exc |-> "ValueError", code |-> 0, msg |-> << Txt(m) >>]
GithubException == [exc |-> "GithubException", code |-> 0, msg |-> << Txt("github") >>]

\* StartLoop without the `if not diff_text: return`
StartLoopNoCheck(diff) ==
    LET built == BuildModels(MODEL_PRIORITIES, MODEL_NAME)
    IN  /\ models_to_try' = built.models_to_try
        /\ MODEL_PRIORITIES' = built.MODEL_PRIORITIES
        /\ idx' = 1
        /\ KeepRunning("attempt")

\* main from the fetcher's return to the first analyze_code call
StartLoop(diff) ==
    IF diff = << >>
    THEN /\ ReturnFromMain
         /\ UNCHANGED << MODEL_PRIORITIES, models_to_try, idx >>
    ELSE LET built == BuildModels(MODEL_PRIORITIES, MODEL_NAME)
         IN  /\ models_to_try' = built.models_to_try
             /\ MODEL_PRIORITIES' = built.MODEL_PRIORITIES
             /\ idx' = 1
             /\ KeepRunning("attempt")

\* "\n\n".join(diff_content) of the variant's fetcher
Assemble(v, fs) ==
    IF v = "src" THEN diff_content_src(fs, 1) ELSE diff_content_py(fs, 1)

\* get_pr_diff() / get_pr_data() and main up to the first provider call
Fetch(v) ==
    /\ pc = "fetch"
    /\ IF MissingCredentials
       THEN /\ ExitFailure(ValueError("Missing GitHub credentials or PR info."))
            /\ UNCHANGED << MODEL_PRIORITIES, files, diff_text, models_to_try, idx,
                            host_contacted, fetched >>
       ELSE /\ host_contacted' = TRUE
            /\ \/ /\ ExitFailure(GithubException)
                  /\ UNCHANGED << MODEL_PRIORITIES, files, diff_text, models_to_try, idx,
                                  fetched >>
               \/ /\ PR_NUMBER_STR = "abc"
                  /\ ExitFailure(ValueError("invalid literal for int()"))
                  /\ UNCHANGED << MODEL_PRIORITIES, files, diff_text, models_to_try, idx,
                                  fetched >>
               \/ /\ PR_NUMBER_STR # "abc"
                  /\ \E fs \in Listings :
                        /\ files' = fs
                        /\ fetched' = TRUE
                        /\ diff_text' = Assemble(v, fs)
                        /\ StartLoop(Assemble(v, fs))
    /\ UNCHANGED << config_vars, review_comment, successful_model, last_error, retry_delay,
                    ev, call_hist, n_sleeps, n_posts >>

get_pr_diff ==
    /\ variant = "src"
    /\ Fetch("src")

get_pr_data ==
    /\ variant = "python_src"
    /\ Fetch("python_src")

\* history of one analyze_code call
CallHistory(attempt, out) ==
    /\ invoked' = invoked \cup { idx }
    /\ n_calls' = n_calls + 1
    /\ IF out.kind = "return"
       THEN /\ failed' = failed \ { idx }
            /\ returned' = TRUE
            /\ last_raised' = last_raised
            /\ ev' = Returned(idx, attempt)
       ELSE /\ failed' = failed \cup { idx }
            /\ returned' = returned
            /\ last_raised' = out.err
            /\ ev' = Raised(idx, attempt, out.err)

\* Accept without the break: the loop goes on to the next candidate
AcceptNoBreak(out) ==
    /\ review_comment' = out.text
    /\ successful_model' = models_to_try[idx]
    /\ UNCHANGED << last_error, retry_delay >>
    /\ Continue(out.text, models_to_try[idx], last_error)

\* review_comment = analyze_code(...); successful_model = model_name; break
Accept(out) ==
    /\ review_comment' = out.text
    /\ successful_model' = models_to_try[idx]
    /\ idx' = idx
    /\ UNCHANGED << last_error, retry_delay >>
    /\ AfterLoop(out.text, models_to_try[idx], last_error)

\* src: the handler of the first attempt
HandleFirstSrc(e) ==
    IF e.exc = "GoogleAPIError"
    THEN /\ last_error' = e
         /\ UNCHANGED << review_comment, successful_model >>
         /\ IF is_rate_limit(e)
            THEN /\ retry_delay' = parse_retry_delay_src(e.msg)
                 /\ IF UsableDelay(parse_retry_delay_src(e.msg))
                    THEN /\ idx' = idx
                         /\ KeepRunning("sleep")
                    ELSE Continue(review_comment, successful_model, e)
            ELSE /\ retry_delay' = retry_delay
                 /\ Continue(review_comment, successful_model, e)
    ELSE /\ ExitFailure(e)
         /\ UNCHANGED << idx, review_comment, successful_model, last_error, retry_delay >>

\* src: one pass of the for loop up to the next outside call
AttemptSrc ==
    /\ pc = "attempt"
    /\ variant = "src"
    /\ \E resp \in ProviderResponses :
          LET out == analyze_code_src(GEMINI_API_KEY, resp)
          IN  /\ CallHistory(1, out)
              /\ IF out.kind = "return" THEN Accept(out) ELSE HandleFirstSrc(out.err)
    /\ UNCHANGED << config_vars, MODEL_PRIORITIES, files, diff_text, models_to_try,
                    n_sleeps, n_posts, host_contacted, fetched >>

\* src: time.sleep(retry_delay)
SleepSrc ==
    /\ pc = "sleep"
    /\ variant = "src"
    /\ n_sleeps' = n_sleeps + 1
    /\ ev' = Slept(idx, retry_delay)
    /\ KeepRunning("retry")
    /\ UNCHANGED << config_vars, MODEL_PRIORITIES, files, diff_text, loop_vars, call_hist,
                    n_posts, host_contacted, fetched >>

\* HandleRetrySrc without `last_error = retry_error`
HandleRetrySrcKeep(e) ==
    /\ UNCHANGED << last_error, review_comment, successful_model, retry_delay >>
    /\ Continue(review_comment, successful_model, last_error)

\* HandleRetrySrc treating the failure of the retry as that of a first attempt
HandleRetrySrcAsFirst(e) == HandleFirstSrc(e)

\* HandleRetrySrc calling the candidate a third time after the failed retry
HandleRetrySrcTwice(e) ==
    /\ last_error' = e
    /\ UNCHANGED << review_comment, successful_model, retry_delay >>
    /\ IF ev.type = "sleep"
       THEN /\ idx' = idx
            /\ KeepRunning("retry")
       ELSE Continue(review_comment, successful_model, e)

\* src: except Exception as retry_error: last_error = retry_error; continue
HandleRetrySrc(e) ==
    /\ last_error' = e
    /\ UNCHANGED << review_comment, successful_model, retry_delay >>
    /\ Continue(review_comment, successful_model, e)

\* src: the second call for the same candidate
RetrySrc ==
    /\ pc = "retry"
    /\ variant = "src"
    /\ \E resp \in ProviderResponses :
          LET out == analyze_code_src(GEMINI_API_KEY, resp)
          IN  /\ CallHistory(2, out)
              /\ IF out.kind = "return" THEN Accept(out) ELSE HandleRetrySrc(out.err)
    /\ UNCHANGED << config_vars, MODEL_PRIORITIES, files, diff_text, models_to_try,
                    n_sleeps, n_posts, host_contacted, fetched >>

\* python_src: except Exception as e
HandlePy(e) ==
    /\ last_error' = e
    /\ UNCHANGED << review_comment, successful_model, retry_delay >>
    /\ IF IsRateLimitPy(e)
       THEN /\ idx' = idx
            /\ KeepRunning("sleep")
       ELSE Continue(review_comment, successful_model, e)

\* python_src: one pass of the for loop up to the next outside call
AttemptPy ==
    /\ pc = "attempt"
    /\ variant = "python_src"
    /\ \E resp \in ProviderResponses :
          LET out == analyze_code_py(GEMINI_API_KEY, resp)
          IN  /\ CallHistory(1, out)
              /\ IF out.kind = "return" THEN Accept(out) ELSE HandlePy(out.err)
    /\ UNCHANGED << config_vars, MODEL_PRIORITIES, files, diff_text, models_to_try,
                    n_sleeps, n_posts, host_contacted, fetched >>

\* SleepPy sleeping for the delay the message states
SleepPyParsed ==
    /\ pc = "sleep"
    /\ variant = "python_src"
    /\ n_sleeps' = n_sleeps + 1
    /\ ev' = Slept(idx, parse_retry_delay_py(last_error.msg))
    /\ Continue(review_comment, successful_model, last_error)
    /\ UNCHANGED << config_vars, MODEL_PRIORITIES, files, diff_text, models_to_try,
                    review_comment, successful_model, last_error, retry_delay, call_hist,
                    n_posts, host_contacted, fetched >>

\* python_src: time.sleep(10); continue
SleepPy ==
    /\ pc = "sleep"
    /\ variant = "python_src"
    /\ n_sleeps' = n_sleeps + 1
    /\ ev' = Slept(idx, SimpleWait)
    /\ Continue(review_comment, successful_model, last_error)
    /\ UNCHANGED << config_vars, MODEL_PRIORITIES, files, diff_text, models_to_try,
                    review_comment, successful_model, last_error, retry_delay, call_hist,
                    n_posts, host_contacted, fetched >>

\* Publish with the sink's exception swallowed
PublishSwallow ==
    /\ pc = "publish"
    /\ n_posts' = n_posts + 1
    /\ \E ok \in BOOLEAN :
          /\ ev' = Posted(ok)
          /\ ReturnFromMain
    /\ UNCHANGED << config_vars, MODEL_PRIORITIES, files, diff_text, loop_vars, call_hist,
                    n_sleeps, host_contacted, fetched >>

\* Publish with one more try after the sink's first rejection
PublishRetry ==
    /\ pc = "publish"
    /\ n_posts' = n_posts + 1
    /\ \E ok \in BOOLEAN :
          /\ ev' = Posted(ok)
          /\ IF ok THEN ReturnFromMain
             ELSE IF n_posts = 0 THEN KeepRunning("publish")
             ELSE ExitFailure(GithubException)
    /\ UNCHANGED << config_vars, MODEL_PRIORITIES, files, diff_text, loop_vars, call_hist,
                    n_sleeps, host_contacted, fetched >>

\* pr.create_issue_comment(final_comment)
Publish ==
    /\ pc = "publish"
    /\ n_posts' = n_posts + 1
    /\ \E ok \in BOOLEAN :
          /\ ev' = Posted(ok)
          /\ IF ok THEN ReturnFromMain ELSE ExitFailure(GithubException)
    /\ UNCHANGED << config_vars, MODEL_PRIORITIES, files, diff_text, loop_vars, call_hist,
                    n_sleeps, host_contacted, fetched >>

Next ==
    \/ LoadPrompt
    \/ get_pr_diff
    \/ get_pr_data
    \/ AttemptSrc
    \/ SleepSrc
    \/ RetrySrc
    \/ AttemptPy
    \/ SleepPy
    \/ Publish

Spec == Init /\ [][Next]_vars

\* Every outside call returns: a run that can take a step takes one
LiveSpec == Spec /\ WF_vars(Next)

-----------------------------------------------------------------------------
(* A fetcher run on its own: the loop over pr.get_files() of get_pr_diff and *)
(* of get_pr_data, on every listing of FetchListings                         *)

\* the variables a run of one function alone does not use
Unused ==
    /\ GEMINI_API_KEY = TRUE
    /\ GITHUB_TOKEN = TRUE
    /\ REPO_NAME = TRUE
    /\ PR_NUMBER_STR = "7"
    /\ MODEL_NAME = DEFAULT_MODEL_NAME(variant)
    /\ MODEL_PRIORITIES = DefaultPriorities
    /\ models_to_try = << >>
    /\ idx = 0
    /\ review_comment = None
    /\ successful_model = None
    /\ exit_code = Running
    /\ reported = NoError
    /\ ev = NoEvent
    /\ invoked = {}
    /\ failed = {}
    /\ last_raised = NoError
    /\ returned = FALSE
    /\ n_calls = 0
    /\ n_sleeps = 0
    /\ n_posts = 0

InitFetch ==
    /\ variant \in Variants
    /\ Unused
    /\ pc = "get_files"
    /\ files \in FetchListings
    /\ diff_text = << >>
    /\ last_error = NoError
    /\ retry_delay = NoDelay
    /\ host_contacted = TRUE
    /\ fetched = FALSE

AssembleDiff(v) ==
    /\ pc = "get_files"
    /\ variant = v
    /\ diff_text' = Assemble(v, files)
    /\ fetched' = TRUE
    /\ pc' = "assembled"
    /\ UNCHANGED << config_vars, MODEL_PRIORITIES, files, loop_vars, exit_code, reported,
                    ev, call_hist, n_sleeps, n_posts, host_contacted >>

AssembleSrc == AssembleDiff("src")

AssemblePy == AssembleDiff("python_src")

NextFetch == AssembleSrc \/ AssemblePy

FetchSpec == InitFetch /\ [][NextFetch]_vars

-----------------------------------------------------------------------------
(* A parser run on its own: parse_retry_delay of either variant on every     *)
(* message of up to MaxMsgLen phrases                                        *)

MessagePhrases ==
    { [kind |-> k, n |-> d, uc |-> u] : k \in NumberKinds, d \in 1..MaxDelay, u \in BOOLEAN }
    \cup { Txt("429"), Txt("resource exhausted"), TxtUpper("resource exhausted"),
           Txt("quota"), Txt("internal error") }

Messages == SeqsUpTo(MessagePhrases, MaxMsgLen)

InitParse ==
    /\ variant \in Variants
    /\ Unused
    /\ pc = "parse"
    /\ files = << >>
    /\ diff_text = << >>
    /\ last_error \in { GoogleAPIError(429, m) : m \in Messages }
    /\ retry_delay = NoDelay
    /\ host_contacted = FALSE
    /\ fetched = FALSE

\* retry_delay = parse_retry_delay(error_message)
ParseDelay(v) ==
    /\ pc = "parse"
    /\ variant = v
    /\ retry_delay' = IF v = "src" THEN parse_retry_delay_src(last_error.msg)
                      ELSE parse_retry_delay_py(last_error.msg)
    /\ pc' = "parsed"
    /\ UNCHANGED << config_vars, MODEL_PRIORITIES, files, diff_text, models_to_try, idx,
                    review_comment, successful_model, last_error, exit_code, reported, ev,
                    call_hist, n_sleeps, n_posts, host_contacted, fetched >>

ParseSrc == ParseDelay("src")

ParsePy == ParseDelay("python_src")

NextParse == ParseSrc \/ ParsePy

ParseSpec == InitParse /\ [][NextParse]_vars

-----------------------------------------------------------------------------
(* Properties *)

IsCall(e) == e.type \in { "returned", "raised" }

\* a step that makes one analyze_code call
CallStep == n_calls' = n_calls + 1

\* src: a rate-limit failure of the loop whose message carries a delay > 1
RateLimitedWithDelay(e) ==
    /\ e.exc = "GoogleAPIError"
    /\ is_rate_limit(e)
    /\ parse_retry_delay_src(e.msg) # NoDelay
    /\ parse_retry_delay_src(e.msg) > 1

\* C1: once an analyze_code call has returned without raising, no further call
\* is made in the run, for that candidate or any other.
C1_FirstSuccessWins ==
    [][ returned => ( n_calls' = n_calls /\ invoked' = invoked ) ]_vars

C1_Witness ==
    /\ pc = "done"
    /\ returned
    /\ invoked = { 1 }
    /\ n_calls = 1
    /\ Len(models_to_try) > 1

\* C2: the comment sink is called at most once, only after the loop has ended
\* with a non-empty review text that a call of the accepted candidate returned,
\* and never before or during the loop.
C2_PublishOnceAfterAccept ==
    /\ n_posts <= 1
    /\ pc \in { "load_prompt", "fetch", "attempt", "sleep", "retry", "publish" } => n_posts = 0
    /\ (n_posts = 1 \/ pc = "publish") =>
          /\ returned
          /\ Truthy(review_comment)
          /\ successful_model = models_to_try[idx]
          /\ idx \notin failed
    /\ pc = "publish" => ev = Returned(idx, ev.attempt)
    /\ n_posts = 1 => pc = "done" /\ ev.type \in { "posted", "post_failed" }

C2_Witness ==
    /\ n_posts = 1
    /\ ev.type = "posted"
    /\ exit_code = 0

\* a failure that main's test classifies as a rate limit, whatever its class, and
\* whose message carries a delay > 1
RateLimitCarryingDelay(e) ==
    /\ is_rate_limit(e)
    /\ parse_retry_delay_src(e.msg) # NoDelay
    /\ parse_retry_delay_src(e.msg) > 1

\* C3 as stated: in src, whenever a call for a candidate fails with a rate-limit
\* failure whose message carries a delay D > 1, the run goes on with a sleep of
\* exactly D seconds and then exactly one more call for the same candidate, with
\* no other candidate in between.
C3_Original ==
    [][ variant = "src" =>
          /\ ( CallStep /\ ev'.type = "raised" /\ RateLimitCarryingDelay(ev'.err) ) =>
                /\ pc' = "sleep"
                /\ idx' = idx
          /\ pc = "sleep" =>
                /\ ev' = Slept(idx, parse_retry_delay_src(ev.err.msg))
                /\ n_calls' = n_calls
                /\ pc' = "retry"
                /\ idx' = idx
          /\ pc = "retry" =>
                /\ CallStep
                /\ IsCall(ev')
                /\ ev'.idx = ev.idx
      ]_vars

\* the run ended without a comment because no candidate gave a review
GenerationFailed ==
    /\ pc = "done"
    /\ exit_code = 1
    /\ n_calls > 0
    /\ ~( returned /\ Truthy(review_comment) )

\* src: the last call raised an error that the loop does not catch
EscapedLoop ==
    /\ variant = "src"
    /\ ev.type = "raised"
    /\ ev.attempt = 1
    /\ ev.err.exc # "GoogleAPIError"

\* C4: a run that ends in generation failure reports the error of the most recent
\* analyze_code call that raised, and never calls the comment sink. python_src
\* logs that error, and so does src when the error left the loop uncaught;
\* otherwise src reports "All models failed. Last error:" followed by the text of
\* that error, and "Analysis failed." when no call raised.
C4_LastFailureReported ==
    GenerationFailed =>
        /\ n_posts = 0
        /\ IF variant = "python_src" \/ EscapedLoop
           THEN reported = last_raised
           ELSE IF last_raised = NoError
                THEN reported = ReviewerError(<< Txt("Analysis failed.") >>)
                ELSE /\ reported.exc = "ReviewerError"
                     /\ reported.msg =
                            << Txt("All models failed. Last error:") >> \o last_raised.msg

C4_Witness ==
    /\ GenerationFailed
    /\ n_calls > Len(models_to_try)
    /\ ev.type = "raised"
    /\ ev.attempt = 2
    /\ ev.idx = Len(models_to_try)
    /\ reported.msg = << Txt("All models failed. Last error:") >> \o ev.err.msg
    /\ \E i \in failed : i < ev.idx

\* C5: when the fetcher returns an empty diff the run returns normally (exit code
\* 0) with no analyze_code call, no sleep and no call of the comment sink.
C5_EmptyDiffShortCircuit ==
    ( fetched /\ diff_text = << >> ) =>
        /\ pc = "done"
        /\ exit_code = 0
        /\ n_calls = 0
        /\ n_sleeps = 0
        /\ n_posts = 0

C5_Witness ==
    /\ fetched
    /\ files # << >>
    /\ diff_text = << >>
    /\ exit_code = 0

\* C6 as stated: with the model API key missing no second candidate is attempted,
\* no sleep happens, and the run exits with code 1 without a comment.
C6_Original ==
    ~GEMINI_API_KEY =>
        /\ n_calls <= 1
        /\ n_sleeps = 0
        /\ n_posts = 0
        /\ n_calls = 1 => ( pc = "done" /\ exit_code = 1 )

\* C7 as stated: src absorbs every failed first attempt that is neither
\* rate-limited nor the missing key: the failure is recorded and the next
\* candidate is attempted at once (the run ends only when the list is exhausted).
C7_Original ==
    ( /\ variant = "src"
      /\ ev.type = "raised"
      /\ ev.attempt = 1
      /\ ev.err # KeyMissing
      /\ ~is_rate_limit(ev.err) )
    => /\ last_error = ev.err
       /\ IF ev.idx < Len(models_to_try)
          THEN pc = "attempt" /\ idx = ev.idx + 1
          ELSE pc = "done"

\* C8: a call for the candidate at index i is made only when every candidate
\* below i has been called and its latest call raised, and never for an index
\* below one already called.
C8_FixedOrder ==
    [][ n_calls' # n_calls =>
            /\ IsCall(ev')
            /\ ev'.idx \in 1..Len(models_to_try)
            /\ invoked' = invoked \cup { ev'.idx }
            /\ \A j \in invoked : j <= ev'.idx
            /\ \A j \in 1..(ev'.idx - 1) : j \in invoked /\ j \in failed ]_vars

C8_Witness ==
    /\ ev.type = "returned"
    /\ ev.idx = Len(models_to_try)
    /\ invoked = 1..Len(models_to_try)
    /\ failed = 1..(Len(models_to_try) - 1)
    /\ Len(models_to_try) > Len(DefaultPriorities)

\* C9: a run ends with exit code 0 exactly when it posted the comment or returned
\* on an empty diff, and with exit code 1 in every other case.
C9_ExitCode ==
    /\ pc # "done" => exit_code = Running
    /\ pc = "done" =>
          /\ exit_code \in { 0, 1 }
          /\ exit_code = 0 <=> ( ev.type = "posted" \/ ( fetched /\ diff_text = << >> ) )

C9_Witness ==
    /\ pc = "done"
    /\ exit_code = 1
    /\ ev.type = "post_failed"

NoDuplicates(s) == \A i, j \in 1..Len(s) : s[i] = s[j] => i = j

\* C10: the candidate list is [o] + P when the override o is non-empty and not in
\* P, and P unchanged otherwise; it has no duplicate, and the module-level list P
\* is never modified.
C10_CandidateList ==
    /\ MODEL_PRIORITIES = DefaultPriorities
    /\ ( pc \in { "attempt", "sleep", "retry", "publish" } \/ n_calls > 0 ) =>
          /\ models_to_try =
                IF MODEL_NAME # "" /\ MODEL_NAME \notin Range(DefaultPriorities)
                THEN << MODEL_NAME >> \o DefaultPriorities
                ELSE DefaultPriorities
          /\ NoDuplicates(models_to_try)

C10_Witness ==
    /\ pc = "attempt"
    /\ MODEL_NAME = "custom-model"
    /\ models_to_try[1] = "custom-model"
    /\ Len(models_to_try) = Len(DefaultPriorities) + 1

\* the run left the loop on a review, on the end of the list, or on the missing key
LoopEndedFor ==
    \/ returned /\ Truthy(review_comment) /\ ( pc = "publish" \/ n_posts = 1 )
    \/ invoked = 1..Len(models_to_try) /\ failed = invoked
    \/ last_raised = KeyMissing

\* C11 as stated: the loop stops only on an accepted result (which goes to the
\* publisher), on the exhausted list with every candidate failed, or on a fatal
\* precondition; a run never fails with a candidate untried and no fatal raised.
C11_Original ==
    ( n_calls > 0 /\ pc \in { "publish", "done" } ) => LoopEndedFor

\* the conditions of the claim for a file to give a block (python_src)
QualifiesPy(f) ==
    /\ f.status # "removed"
    /\ \A i \in 1..Len(ExcludedPy) : ~Contains(f.filename, ExcludedPy[i])
    /\ \E i \in 1..Len(REVIEWABLE_EXTENSIONS) : EndsWith(f.filename, REVIEWABLE_EXTENSIONS[i])
    /\ f.patch # NoPatch
    /\ f.patch > 0

\* C12: the diff of get_pr_data has exactly one block per qualifying file, in the
\* order of the listing, each headed by its file's path; a removed or excluded
\* file gives no block.
C12_BlocksOfQualifyingFiles ==
    ( pc = "assembled" /\ variant = "python_src" ) =>
        LET kept == SelectSeq(files, QualifiesPy)
        IN  /\ Len(diff_text) = Len(kept)
            /\ \A k \in 1..Len(kept) : diff_text[k].filename = kept[k].filename
            /\ \A k \in 1..Len(diff_text) :
                  \E i \in 1..Len(files) :
                      /\ files[i].filename = diff_text[k].filename
                      /\ files[i].status # "removed"
                      /\ ~Excluded(files[i].filename, ExcludedPy)

C12_Witness ==
    /\ pc = "assembled"
    /\ variant = "python_src"
    /\ Len(files) = 2
    /\ files[1].status = "removed"
    /\ Len(diff_text) = 1
    /\ diff_text[1].filename = files[2].filename

\* C13 as stated: in either variant a file without patch text gives no block, and
\* a change set whose reviewable files all lack patch text gives an empty diff and
\* the run returns on it without a provider call.
C13_Original ==
    fetched =>
        /\ \A k \in 1..Len(diff_text) : diff_text[k].body.text # "None"
        /\ ( \A i \in 1..Len(files) :
                 Reviewable(files[i].filename) => files[i].patch = NoPatch )
           => ( diff_text = << >> /\ pc = "done" /\ exit_code = 0 /\ n_calls = 0 )

\* the positions of message m that hold the number phrase k, in any case
PhrasesOf(m, k) == { i \in 1..Len(m) : m[i].kind = k }

\* the number of the leftmost phrase k of m
NumberOf(m, k) ==
    m[CHOOSE i \in PhrasesOf(m, k) : \A j \in PhrasesOf(m, k) : i <= j].n

\* m holds a bare rate-limit marker of python_src: "429" or "resource exhausted"
BareMarker(m) ==
    \E i \in 1..Len(m) :
        \/ m[i].kind \in { "429", "resource exhausted" }
        \/ Digits429(m[i].n)

\* C14: parse_retry_delay of python_src gives the number of the first of "retry
\* in", "retry after", "wait" (in this order, wherever it stands in the message and
\* in whatever case) that the message holds; 5.0 when it holds none of them but a
\* bare marker; None when it holds nothing of these.
C14_ParsePy ==
    ( pc = "parsed" /\ variant = "python_src" ) =>
        LET m == last_error.msg
        IN  IF PhrasesOf(m, "retry in") # {} THEN retry_delay = NumberOf(m, "retry in")
            ELSE IF PhrasesOf(m, "retry after") # {}
                 THEN retry_delay = NumberOf(m, "retry after")
            ELSE IF PhrasesOf(m, "wait") # {} THEN retry_delay = NumberOf(m, "wait")
            ELSE IF BareMarker(m) THEN retry_delay = DefaultDelay
            ELSE retry_delay = NoDelay

C14_Witness ==
    /\ pc = "parsed"
    /\ variant = "python_src"
    /\ Len(last_error.msg) = 2
    /\ last_error.msg[1].kind = "429"
    /\ last_error.msg[2].kind = "wait"
    /\ last_error.msg[2].uc
    /\ retry_delay = last_error.msg[2].n
    /\ retry_delay # DefaultDelay

\* C15 as stated: in src a rate-limit failure whose message holds a bare marker
\* and no delay phrase gets the default delay from the parser, and a wait of that
\* delay and one retry follow.
C15_Original ==
    ( /\ variant = "src"
      /\ ev.type = "raised"
      /\ ev.attempt = 1
      /\ ev.err.exc = "GoogleAPIError"
      /\ BareMarker(ev.err.msg)
      /\ \A i \in 1..Len(ev.err.msg) : ev.err.msg[i].kind \notin NumberKinds )
    => ( retry_delay = DefaultDelay /\ pc = "sleep" )

\* every call is for the candidate the loop stands at, and the loop never goes back
LoopForward ==
    /\ idx' >= idx
    /\ CallStep => ( IsCall(ev') /\ ev'.idx = idx )

\* C16: in src, when the retry of a rate-limited candidate fails with whatever
\* error, that error becomes the recorded one and the loop goes to the next
\* candidate (or ends) with no sleep and no new delay; a candidate is called at
\* most twice, and the second call comes only after the sleep that followed a
\* first attempt rate-limited with a parsed delay > 1.
C16_RetryFailureAdvances ==
    [][ variant = "src" =>
          /\ LoopForward
          /\ ( CallStep /\ ev'.type = "raised" /\ ev'.attempt = 2 ) =>
                /\ last_error' = ev'.err
                /\ retry_delay' = retry_delay
                /\ n_sleeps' = n_sleeps
                /\ \/ pc' = "attempt" /\ idx' = idx + 1
                   \/ pc' = "done" /\ idx = Len(models_to_try)
          /\ ( CallStep /\ idx \in invoked ) =>
                /\ ev'.attempt = 2
                /\ ev = Slept(idx, retry_delay)
                /\ retry_delay > 1
                /\ RateLimitedWithDelay(last_raised)
                /\ retry_delay = parse_retry_delay_src(last_raised.msg)
          /\ ( CallStep /\ idx \notin invoked ) => ev'.attempt = 1
          /\ n_sleeps' # n_sleeps =>
                ( ev.type = "raised" /\ ev.attempt = 1 /\ ev.idx = idx )
          /\ ( IsCall(ev) /\ ev.attempt = 2 /\ CallStep ) => idx > ev.idx
      ]_vars

C16_Witness ==
    /\ variant = "src"
    /\ ev.type = "raised"
    /\ ev.attempt = 2
    /\ is_rate_limit(ev.err)
    /\ parse_retry_delay_src(ev.err.msg) = MaxDelay
    /\ last_error = ev.err
    /\ pc = "attempt"
    /\ idx = ev.idx + 1
    /\ n_calls = 2
    /\ n_sleeps = 1

\* src: a rate-limit failure of a first attempt whose message gives no delay, or
\* a delay of at most 1 second
RateLimitedNoUsableDelay(e) ==
    /\ e.type = "raised"
    /\ e.attempt = 1
    /\ e.err.exc = "GoogleAPIError"
    /\ is_rate_limit(e.err)
    /\ \/ parse_retry_delay_src(e.err.msg) = NoDelay
       \/ parse_retry_delay_src(e.err.msg) <= 1

\* C17: in src, after a rate-limit failure with no usable delay the loop stands
\* at the next candidate (or has ended); no sleep follows, and no later call is
\* for the failed candidate.
C17_NoDelayAdvances ==
    [][ ( variant = "src" /\ RateLimitedNoUsableDelay(ev') ) =>
          /\ LoopForward
          /\ n_sleeps' = n_sleeps
          /\ \/ pc' = "attempt" /\ idx' = ev'.idx + 1
             \/ pc' = "done" /\ ev'.idx = Len(models_to_try) /\ exit_code' = 1
          /\ RateLimitedNoUsableDelay(ev) =>
                ( ev' = ev \/ ( ev'.type # "sleep" /\ ev'.idx # ev.idx ) )
      ]_vars

C17_Witness ==
    /\ variant = "src"
    /\ RateLimitedNoUsableDelay(ev)
    /\ parse_retry_delay_src(ev.err.msg) = 1
    /\ ev.idx = 1
    /\ pc = "attempt"
    /\ idx = 2
    /\ n_calls = 1
    /\ n_sleeps = 0

\* C18 as stated: in the diff of get_pr_data a patch of at most PatchLimit
\* characters stands in its block unchanged and unmarked, and a longer one stands
\* as its first PatchLimit characters followed by the truncation marker.
C18_Original ==
    ( pc = "assembled" /\ variant = "python_src" ) =>
        LET kept == SelectSeq(files, QualifiesPy)
        IN  /\ Len(diff_text) = Len(kept)
            /\ \A k \in 1..Len(kept) :
                  IF kept[k].patch <= PatchLimit
                  THEN diff_text[k].body = PatchBody(kept[k].patch, FALSE)
                  ELSE diff_text[k].body = PatchBody(PatchLimit, TRUE)

\* C19: in both variants, when the sink rejects the comment the run is over with
\* exit code 1: that write was the only one, and neither another write nor a
\* provider call follows.
C19_SinkFailureTerminal ==
    [][ ev'.type = "post_failed" =>
          /\ pc' = "done"
          /\ exit_code' = 1
          /\ n_posts' = 1
          /\ returned'
          /\ ev.type = "post_failed" => ( n_posts' = n_posts /\ n_calls' = n_calls )
      ]_vars

C19_Witness ==
    /\ ev.type = "post_failed"
    /\ variant = "python_src"
    /\ returned
    /\ successful_model = models_to_try[2]
    /\ n_calls = 2
    /\ n_posts = 1
    /\ exit_code = 1

\* C20: in both variants, when the host token, the repository name or the change
\* set number is absent, the run contacts neither the hosting provider, nor the
\* model provider, nor the sink, the fetcher returns nothing, and the run ends
\* with exit code 1.
C20_MissingConfiguration ==
    ( ~GITHUB_TOKEN \/ ~REPO_NAME \/ PR_NUMBER_STR = "" ) =>
        /\ ~host_contacted
        /\ ~fetched
        /\ n_calls = 0
        /\ n_posts = 0
        /\ pc \in { "load_prompt", "fetch", "done" }
        /\ pc = "done" => exit_code = 1

C20_Witness ==
    /\ GITHUB_TOKEN
    /\ REPO_NAME
    /\ PR_NUMBER_STR = ""
    /\ pc = "done"
    /\ exit_code = 1
    /\ reported.exc = "ValueError"
    /\ ~host_contacted

\* python_src: the message of e holds "429" or, in any case, "resource exhausted"
MarkedRateLimit(e) ==
    \/ Has429(e.msg)
    \/ HasWord(Lower(e.msg), "resource exhausted")

\* the loop stands at the candidate after i, or has ended in failure after the last
AdvancedFrom(i) ==
    \/ pc' = "attempt" /\ idx' = i + 1
    \/ pc' = "done" /\ i = Len(models_to_try) /\ exit_code' = 1

\* C21: in python_src every candidate is called at most once; a failure whose
\* message is marked as a rate limit is followed by one sleep of 10 seconds,
\* whatever delay the message states and also after the last candidate, and then
\* by the next candidate; any other failure advances with no sleep.
C21_SimpleWait ==
    [][ variant = "python_src" =>
          /\ LoopForward
          /\ CallStep => ( idx \notin invoked /\ ev'.attempt = 1 )
          /\ ( CallStep /\ ev'.type = "raised" ) =>
                /\ n_sleeps' = n_sleeps
                /\ IF MarkedRateLimit(ev'.err)
                   THEN pc' = "sleep" /\ idx' = idx
                   ELSE AdvancedFrom(idx)
          /\ pc = "sleep" =>
                /\ ev.type = "raised"
                /\ ev.idx = idx
                /\ MarkedRateLimit(ev.err)
                /\ ev' = Slept(idx, 10)
                /\ n_sleeps' = n_sleeps + 1
                /\ n_calls' = n_calls
                /\ AdvancedFrom(idx)
          /\ n_sleeps' # n_sleeps => pc = "sleep"
      ]_vars

C21_Witness ==
    /\ variant = "python_src"
    /\ ev = Slept(Len(models_to_try), 10)
    /\ parse_retry_delay_py(last_error.msg) = MaxDelay
    /\ pc = "done"
    /\ exit_code = 1
    /\ n_calls = Len(models_to_try)
    /\ n_sleeps = 1

\* the three ways a run ends
Published == exit_code = 0 /\ n_posts = 1 /\ ev.type = "posted"
NothingToReview ==
    exit_code = 0 /\ n_posts = 0 /\ n_calls = 0 /\ fetched /\ diff_text = << >>
Failure == exit_code = 1 /\ ev.type # "posted"

\* the number of provider calls and of sleeps a list of n candidates allows
CallsWithin(n) == n_calls <= ( IF variant = "src" THEN 2 * n ELSE n )
SleepsWithin(n) == n_sleeps <= n

\* what holds of every state of a run: the resource bounds, and exactly one
\* outcome once the run has ended
BoundedRun ==
    /\ CallsWithin(Len(models_to_try))
    /\ SleepsWithin(Len(models_to_try))
    /\ pc = "done" =>
          /\ Published \/ NothingToReview \/ Failure
          /\ ~( Published /\ NothingToReview )
          /\ ~( Published /\ Failure )
          /\ ~( NothingToReview /\ Failure )

\* C22: when every outside call returns, every run ends, in exactly one of
\* published, nothing to review, failure; with n candidates it makes at most 2n
\* provider calls (n in python_src) and at most n sleeps.
C22_Terminates == []BoundedRun /\ <>( pc = "done" )

C22_Witness ==
    /\ variant = "src"
    /\ pc = "done"
    /\ Failure
    /\ Len(models_to_try) > 1
    /\ n_calls = 2 * Len(models_to_try)
    /\ n_sleeps = Len(models_to_try)

====
